---- MODULE Spec2Model ----
(***************************************************************************)
(* The Room view of the bill splitter front end (src/src/pages/Room.tsx,   *)
(* first variant, lines 1-430): the loader effect, the socket effect, the  *)
(* inbound event handlers, handleSend and the bill split.                  *)
(***************************************************************************)
EXTENDS Integers, Sequences, FiniteSets, Bags, TLC

VARIABLES
    phase,        \* "init" (constructed, effects not yet run), "mounted", "unmounted"
    token,        \* localStorage "token" is present
    roomId,       \* route parameter
    socket,       \* useState socket: NoSocket or the index of a connection in conns
    cleanup,      \* connection captured by the socket effect's pending cleanup (NoSocket: none)
    conns,        \* every connection io() has opened: [room, state, disc]
    fetches,      \* every run of the loader effect with a token: [room, roomSt, msgSt]
    messages,     \* useState messages
    input,        \* useState input (a sequence of characters)
    file,         \* useState file
    roomTitle,    \* useState roomTitle
    menuItems,    \* useState menuItems
    onlineUsers,  \* useState onlineUsers
    notice,       \* title of the last toast shown
    nav,          \* target of the last navigate() call
    uploads,      \* pending continuations of handleSend awaiting the upload response
    uploadCount,  \* uploads issued so far
    emitted,      \* bag of everything emitted on a socket
    nextId,       \* number of ids crypto.randomUUID() has produced
    lastEvent,    \* the last connect_error or inbound message event handled: [ev, arg]
    presence      \* the server's presence list of the room: the next userList payload

vars == <<phase, token, roomId, socket, cleanup, conns, fetches, messages, input,
          file, roomTitle, menuItems, onlineUsers, notice, nav, uploads,
          uploadCount, emitted, nextId, lastEvent, presence>>

----------------------------------------------------------------------------
(* Bounds of the model *)

MaxConns == 2      \* runs of the socket effect that open a connection
MaxSends == 1      \* text messages sent (ids generated locally)
MaxUploads == 2    \* file uploads issued
MaxHist == 2       \* length of a message-history payload
MaxList == 3       \* length of a userList payload
MaxMenu == 2       \* length of a room's menu payload
MaxMsgs == 3       \* length of the message list of the second variant

----------------------------------------------------------------------------
(* Values *)

NoSocket == 0
NoFile == 0
SP == " "
NoEvent == [ev |-> "none", arg |-> <<>>]

Rooms == {1, 2}
Files == {1}
DisplayName == <<"Y">>
Bob == <<"b">>
Unknown == <<"U">>

\* String.prototype.trim, on sequences of characters
RECURSIVE TrimStart(_)
TrimStart(s) ==
    IF s = <<>> THEN s
    ELSE IF Head(s) = SP THEN TrimStart(Tail(s)) ELSE s

RECURSIVE TrimEnd(_)
TrimEnd(s) ==
    IF s = <<>> THEN s
    ELSE IF s[Len(s)] = SP THEN TrimEnd(SubSeq(s, 1, Len(s) - 1)) ELSE s

\* A trim of the leading whitespace only
TrimStartOnly(s) == TrimStart(s)

Trim(s) == TrimEnd(TrimStart(s))

Inputs == {<<>>, <<SP>>, <<SP, "a", SP>>}

----------------------------------------------------------------------------
(* Init: the state after the component's first render, before its effects *)

Init ==
    /\ phase = "init"
    /\ token \in BOOLEAN
    /\ roomId = 1
    /\ socket = NoSocket
    /\ cleanup = NoSocket
    /\ conns = <<>>
    /\ fetches = <<>>
    /\ messages = <<>>
    /\ input = <<>>
    /\ file = NoFile
    /\ roomTitle = 0
    /\ menuItems = <<>>
    /\ onlineUsers = <<>>
    /\ notice = "none"
    /\ nav = "none"
    /\ uploads = <<>>
    /\ uploadCount = 0
    /\ emitted = EmptyBag
    /\ nextId = 0
    /\ lastEvent = NoEvent
    /\ presence = <<>>

----------------------------------------------------------------------------
(* Messages *)

\* Messages the server holds from the start: 1 and 3 are texts from Bob,
\* 2 and 4 are the proofs the server creates for this user's uploads, 5 is a
\* proof Bob uploaded.
ServerIds == {1, 2, 3, 4, 5}
ProofIds == {2, 4}
BobProofId == 5
LocalId(k) == 10 + k

RoomOf(id) == IF id \in {1, 2} THEN 1 ELSE 2

\* The text message handleSend builds (lines 172-178)
TextMsg(id, text, room) ==
    [id |-> id, senderName |-> DisplayName, text |-> text, proofUrl |-> FALSE,
     createdAt |-> id, roomId |-> room]

\* The proof message handleSend builds from the upload response (lines 197-203)
ProofMsg(id, room) ==
    [id |-> id, senderName |-> DisplayName, text |-> <<>>, proofUrl |-> TRUE,
     createdAt |-> 5 - id, roomId |-> room]

\* What the server broadcasts for a message it holds
ServerMsg(id) ==
    IF id \in ProofIds
    THEN ProofMsg(id, RoomOf(id))
    ELSE IF id = BobProofId
    THEN [id |-> id, senderName |-> Bob, text |-> <<>>, proofUrl |-> TRUE,
          createdAt |-> id, roomId |-> RoomOf(id)]
    ELSE [id |-> id, senderName |-> Bob, text |-> <<"a">>, proofUrl |-> FALSE,
          createdAt |-> 5 - id, roomId |-> RoomOf(id)]

\* A sendMessage the component emitted, as the server echoes and stores it
SentText == {e.msg : e \in {x \in BagToSet(emitted) : x.ev = "sendMessage"}}

\* Every message the server can deliver to room r
ServerHolds(r) ==
    {ServerMsg(id) : id \in {i \in ServerIds : RoomOf(i) = r}}
        \cup {m \in SentText : m.roomId = r}

\* One element of the GET /messages payload: senderName may be missing (the
\* name is then under sender.name, or nowhere), the attachment is under
\* proofUrl or fileUrl, createdAt may be missing.
RawMsg(m) ==
    [id |-> m.id,
     senderName |-> IF m.id = 1 THEN <<>> ELSE m.senderName,
     sender |-> IF m.id = 1 THEN m.senderName ELSE <<>>,
     text |-> m.text,
     proofUrl |-> m.proofUrl /\ m.id # 2,
     fileUrl |-> m.proofUrl /\ m.id = 2,
     createdAt |-> m.createdAt]

Now == 20 + nextId

\* fetchMessages' map callback (lines 94-100)
NormalizeMsg(raw) ==
    [id |-> raw.id,
     senderName |-> IF raw.senderName # <<>> THEN raw.senderName
                    ELSE IF raw.sender # <<>> THEN raw.sender ELSE Unknown,
     text |-> raw.text,
     proofUrl |-> raw.proofUrl \/ raw.fileUrl,
     createdAt |-> IF raw.createdAt # 0 THEN raw.createdAt ELSE Now,
     roomId |-> 0]

\* Array.prototype.sort with the comparator of lines 101-105 (stable)
RECURSIVE InsertByTime(_, _)
InsertByTime(m, s) ==
    IF s = <<>> THEN <<m>>
    ELSE IF m.createdAt < Head(s).createdAt THEN <<m>> \o s
    ELSE <<Head(s)>> \o InsertByTime(m, Tail(s))

RECURSIVE SortByTime(_)
SortByTime(s) ==
    IF s = <<>> THEN <<>>
    ELSE InsertByTime(s[Len(s)], SortByTime(SubSeq(s, 1, Len(s) - 1)))

\* Array.prototype.splice(i, 1)
RemoveAt(s, i) == SubSeq(s, 1, i - 1) \o SubSeq(s, i + 1, Len(s))

MapSeq(F(_), s) == [i \in 1..Len(s) |-> F(s[i])]

\* Sequences of length at most n over S without repetition
RECURSIVE SeqsNoDup(_, _)
SeqsNoDup(S, n) ==
    IF n = 0 THEN {<<>>}
    ELSE LET shorter == SeqsNoDup(S, n - 1)
         IN shorter \cup
            UNION {{Append(q, x) : x \in S \ {q[i] : i \in 1..Len(q)}} :
                   q \in {p \in shorter : Len(p) = n - 1}}

\* The payloads GET /messages/r can return: the server's messages of room r,
\* in any order, with pairwise distinct ids
Histories(r) ==
    {MapSeq(RawMsg, h) : h \in SeqsNoDup(ServerHolds(r), MaxHist)}

HasId(list, id) == \E i \in 1..Len(list) : list[i].id = id

----------------------------------------------------------------------------
(* Effects *)

Mounted == phase = "mounted"

\* A cleanup that closes only a connection that is already connected
DisconnectIfConnected(cs, s) ==
    IF s = NoSocket \/ cs[s].state # "connected" THEN cs
    ELSE [cs EXCEPT ![s].disc = @ + 1, ![s].state = "closed"]

\* s.disconnect() (line 163)
Disconnect(cs, s) ==
    IF s = NoSocket THEN cs
    ELSE [cs EXCEPT ![s].disc = @ + 1, ![s].state = "closed"]

\* Effects that fetch and connect whether or not a token is stored
RunEffectsNoGuard(r, tok, cs) ==
    /\ fetches' = Append(fetches, [room |-> r, roomSt |-> "pending",
                                   msgSt |-> "pending"])
    /\ conns' = Append(cs, [room |-> r, state |-> "connecting", disc |-> 0])
    /\ cleanup' = Len(cs) + 1
    /\ socket' = Len(cs) + 1
    /\ UNCHANGED <<notice, nav>>

\* The loader effect (lines 54-114) and the socket effect (lines 118-165),
\* run for room r after the cleanup of the previous run (cs: conns after it)
RunEffects(r, tok, cs) ==
    IF ~tok
    THEN /\ notice' = "Unauthorized"
         /\ nav' = "login"
         /\ fetches' = fetches
         /\ conns' = cs
         /\ cleanup' = NoSocket
         /\ socket' = socket
    ELSE /\ fetches' = Append(fetches, [room |-> r, roomSt |-> "pending",
                                        msgSt |-> "pending"])
         /\ conns' = Append(cs, [room |-> r, state |-> "connecting", disc |-> 0])
         /\ cleanup' = Len(cs) + 1
         /\ socket' = Len(cs) + 1
         /\ UNCHANGED <<notice, nav, presence>>

Mount ==
    /\ phase = "init"
    /\ phase' = "mounted"
    /\ RunEffects(roomId, token, conns)
    /\ UNCHANGED <<token, roomId, messages, input, file, roomTitle, menuItems,
                   onlineUsers, uploads, uploadCount, emitted, nextId, lastEvent, presence>>

\* A room change whose socket effect returns no cleanup
RoomChangeNoCleanup(r) ==
    /\ Mounted
    /\ r # roomId
    /\ Len(conns) < MaxConns
    /\ roomId' = r
    /\ RunEffects(r, token, conns)
    /\ UNCHANGED <<phase, token, messages, input, file, roomTitle, menuItems,
                   onlineUsers, uploads, uploadCount, emitted, nextId, lastEvent,
                   presence>>

\* The route parameter changes: cleanup of the socket effect, then both effects
RoomChange(r) ==
    /\ Mounted
    /\ r # roomId
    /\ Len(conns) < MaxConns
    /\ roomId' = r
    /\ RunEffects(r, token, Disconnect(conns, cleanup))
    /\ UNCHANGED <<phase, token, messages, input, file, roomTitle, menuItems,
                   onlineUsers, uploads, uploadCount, emitted, nextId, lastEvent, presence>>

\* The stored token is removed (logout elsewhere) and the component re-renders
TokenRemoved ==
    /\ Mounted
    /\ token
    /\ token' = FALSE
    /\ RunEffects(roomId, FALSE, Disconnect(conns, cleanup))
    /\ UNCHANGED <<phase, roomId, messages, input, file, roomTitle, menuItems,
                   onlineUsers, uploads, uploadCount, emitted, nextId, lastEvent, presence>>

Unmount ==
    /\ Mounted
    /\ phase' = "unmounted"
    /\ conns' = Disconnect(conns, cleanup)
    /\ cleanup' = NoSocket
    /\ UNCHANGED <<token, roomId, socket, fetches, messages, input, file,
                   roomTitle, menuItems, onlineUsers, notice, nav, uploads,
                   uploadCount, emitted, nextId, lastEvent, presence>>

----------------------------------------------------------------------------
(* The loader's two fetches *)

\* State setters do nothing once the component is unmounted
SetState(old, new) == IF Mounted THEN new ELSE old

\* One element of room.menu: price may be missing or zero
MenuPrices == {0, 100}
RawItems == {[name |-> "item", price |-> p] : p \in MenuPrices}

RECURSIVE SeqsUpTo(_, _)
SeqsUpTo(S, n) ==
    IF n = 0 THEN {<<>>}
    ELSE SeqsUpTo(S, n - 1) \cup [1..n -> S]

Menus == SeqsUpTo(RawItems, MaxMenu)
SessionMenus == {<<>>, <<[name |-> "item", price |-> 100]>>}

\* The map callback of lines 72-76
MenuItem(item, index) ==
    [id |-> index, name |-> item.name, price |-> IF item.price # 0 THEN item.price ELSE 0]

\* fetchRoom resolves with an OK response (lines 67-77)
FetchRoomOk(k, menu) ==
    /\ fetches[k].roomSt = "pending"
    /\ fetches' = [fetches EXCEPT ![k].roomSt = "ok"]
    /\ roomTitle' = SetState(roomTitle, fetches[k].room)
    /\ menuItems' = SetState(menuItems,
                             [i \in 1..Len(menu) |-> MenuItem(menu[i], i - 1)])
    /\ UNCHANGED <<phase, token, roomId, socket, cleanup, conns, messages, input,
                   file, onlineUsers, notice, nav, uploads, uploadCount, emitted,
                   nextId, lastEvent, presence>>

\* A room fetch failure handled like the message fetch failure: logged only
FetchRoomFailLogged(k) ==
    /\ fetches[k].roomSt = "pending"
    /\ fetches' = [fetches EXCEPT ![k].roomSt = "failed"]
    /\ UNCHANGED <<phase, token, roomId, socket, cleanup, conns, messages, input,
                   file, roomTitle, menuItems, onlineUsers, notice, nav, uploads,
                   uploadCount, emitted, nextId, lastEvent, presence>>

\* fetchRoom gets a non-OK response or a rejected request (lines 66, 78-81)
FetchRoomFail(k) ==
    /\ fetches[k].roomSt = "pending"
    /\ fetches' = [fetches EXCEPT ![k].roomSt = "failed"]
    /\ notice' = "Error"
    /\ nav' = "rooms"
    /\ UNCHANGED <<phase, token, roomId, socket, cleanup, conns, messages, input,
                   file, roomTitle, menuItems, onlineUsers, uploads, uploadCount,
                   emitted, nextId, lastEvent, presence>>

\* fetchMessages resolves with an OK response (lines 90-106)
FetchMessagesOk(k, hist) ==
    /\ fetches[k].msgSt = "pending"
    /\ fetches' = [fetches EXCEPT ![k].msgSt = "ok"]
    /\ messages' = SetState(messages, SortByTime(MapSeq(NormalizeMsg, hist)))
    /\ UNCHANGED <<phase, token, roomId, socket, cleanup, conns, input, file,
                   roomTitle, menuItems, onlineUsers, notice, nav, uploads,
                   uploadCount, emitted, nextId, lastEvent, presence>>

\* A message fetch failure handled like the room fetch failure: fatal
FetchMessagesFailFatal(k) ==
    /\ fetches[k].msgSt = "pending"
    /\ fetches' = [fetches EXCEPT ![k].msgSt = "failed"]
    /\ notice' = "Error"
    /\ nav' = "rooms"
    /\ UNCHANGED <<phase, token, roomId, socket, cleanup, conns, messages, input,
                   file, roomTitle, menuItems, onlineUsers, uploads, uploadCount,
                   emitted, nextId, lastEvent, presence>>

\* fetchMessages gets a non-OK response or a rejected request (lines 89, 107-109)
FetchMessagesFail(k) ==
    /\ fetches[k].msgSt = "pending"
    /\ fetches' = [fetches EXCEPT ![k].msgSt = "failed"]
    /\ UNCHANGED <<phase, token, roomId, socket, cleanup, conns, messages, input,
                   file, roomTitle, menuItems, onlineUsers, notice, nav, uploads,
                   uploadCount, emitted, nextId, lastEvent, presence>>

----------------------------------------------------------------------------
(* The socket's events *)

Live(c) == conns[c].state = "connected"

\* s.emit(ev, ...) on connection c
Emit(ev, c, room, msg) ==
    emitted (+) SetToBag({[ev |-> ev, conn |-> c, room |-> room, msg |-> msg]})

\* "connect" (lines 128-131)
Connect(c) ==
    /\ conns[c].state = "connecting"
    /\ conns' = [conns EXCEPT ![c].state = "connected"]
    /\ emitted' = Emit("joinRoom", c, conns[c].room, ProofMsg(0, 0))
    /\ UNCHANGED <<phase, token, roomId, socket, cleanup, fetches, messages, input,
                   file, roomTitle, menuItems, onlineUsers, notice, nav, uploads,
                   uploadCount, nextId, lastEvent, presence>>

\* A connect_error handler that opens a connection of its own
ConnectErrorRetries(c) ==
    /\ conns[c].state = "connecting"
    /\ Len(conns) < MaxConns
    /\ lastEvent' = [ev |-> "connect_error", arg |-> <<c>>]
    /\ conns' = Append(conns, [room |-> conns[c].room, state |-> "connecting",
                               disc |-> 0])
    /\ UNCHANGED <<phase, token, roomId, socket, cleanup, fetches, messages,
                   input, file, roomTitle, menuItems, onlineUsers, notice, nav,
                   uploads, uploadCount, emitted, nextId, presence>>

\* "connect_error" (line 133): logged only
ConnectError(c) ==
    /\ conns[c].state = "connecting"
    /\ lastEvent' = [ev |-> "connect_error", arg |-> <<c>>]
    /\ UNCHANGED <<phase, token, roomId, socket, cleanup, conns, fetches, messages,
                   input, file, roomTitle, menuItems, onlineUsers, notice, nav,
                   uploads, uploadCount, emitted, nextId, presence>>

\* receiveMessage without the comparison of the sender with displayName
ReceiveMessageNoSelfFilter(c, msg) ==
    /\ Live(c)
    /\ lastEvent' = [ev |-> "receiveMessage", arg |-> <<msg.id>>]
    /\ messages' = IF HasId(messages, msg.id) THEN messages
                   ELSE Append(messages, msg)
    /\ UNCHANGED <<phase, token, roomId, socket, cleanup, conns, fetches, input,
                   file, roomTitle, menuItems, onlineUsers, notice, nav, uploads,
                   uploadCount, emitted, nextId, presence>>

\* receiveMessage without the lookup of the id in the list
ReceiveMessageNoDedup(c, msg) ==
    /\ Live(c)
    /\ lastEvent' = [ev |-> "receiveMessage", arg |-> <<msg.id>>]
    /\ messages' = IF msg.senderName = DisplayName THEN messages
                   ELSE Append(messages, msg)
    /\ UNCHANGED <<phase, token, roomId, socket, cleanup, conns, fetches, input,
                   file, roomTitle, menuItems, onlineUsers, notice, nav, uploads,
                   uploadCount, emitted, nextId, presence>>

\* "receiveMessage" (lines 148-151)
ReceiveMessage(c, msg) ==
    /\ Live(c)
    /\ lastEvent' = [ev |-> "receiveMessage", arg |-> <<msg.id>>]
    /\ messages' = IF msg.senderName = DisplayName THEN messages
                   ELSE IF HasId(messages, msg.id) THEN messages
                   ELSE Append(messages, msg)
    /\ UNCHANGED <<phase, token, roomId, socket, cleanup, conns, fetches, input,
                   file, roomTitle, menuItems, onlineUsers, notice, nav, uploads,
                   uploadCount, emitted, nextId, presence>>

\* receiveProof with the sender comparison receiveMessage makes
ReceiveProofSelfFiltered(c, proof) ==
    /\ Live(c)
    /\ lastEvent' = [ev |-> "receiveProof", arg |-> <<proof.id>>]
    /\ messages' = IF proof.senderName = DisplayName THEN messages
                   ELSE IF HasId(messages, proof.id) THEN messages
                   ELSE Append(messages, proof)
    /\ UNCHANGED <<phase, token, roomId, socket, cleanup, conns, fetches, input,
                   file, roomTitle, menuItems, onlineUsers, notice, nav, uploads,
                   uploadCount, emitted, nextId, presence>>

\* "receiveProof" (lines 153-157)
ReceiveProof(c, proof) ==
    /\ Live(c)
    /\ lastEvent' = [ev |-> "receiveProof", arg |-> <<proof.id>>]
    /\ messages' = IF HasId(messages, proof.id) THEN messages
                   ELSE Append(messages, proof)
    /\ UNCHANGED <<phase, token, roomId, socket, cleanup, conns, fetches, input,
                   file, roomTitle, menuItems, onlineUsers, notice, nav, uploads,
                   uploadCount, emitted, nextId, presence>>

----------------------------------------------------------------------------
(* Presence *)

Carol == <<"c">>
Dave == <<"d">>
BillNames == {DisplayName, Bob, Carol, Dave}
PresenceNames == {<<SP>>, DisplayName, <<"Y", SP>>, Bob, <<SP, "b">>}

\* Array.from(new Set(s)): the first occurrence of each element, in order
RECURSIVE Unique(_)
Unique(s) ==
    IF s = <<>> THEN <<>>
    ELSE LET front == Unique(SubSeq(s, 1, Len(s) - 1))
             last == s[Len(s)]
         IN IF \E i \in 1..Len(front) : front[i] = last THEN front
            ELSE Append(front, last)

\* normalizeUserList (lines 45-46)
KeepUser(u) == u # <<>> /\ Trim(u) # <<>> /\ u # DisplayName

RECURSIVE FilterUsers(_)
FilterUsers(s) ==
    IF s = <<>> THEN <<>>
    ELSE IF KeepUser(Head(s)) THEN <<Head(s)>> \o FilterUsers(Tail(s))
    ELSE FilterUsers(Tail(s))

\* normalizeUserList without the Set
normalizeUserListNoSet(users) == FilterUsers(users)

normalizeUserList(users) == Unique(FilterUsers(users))

\* prev.filter((u) => u !== name) (line 144)
RECURSIVE Without(_, _)
Without(s, name) ==
    IF s = <<>> THEN <<>>
    ELSE IF Head(s) # name THEN <<Head(s)>> \o Without(Tail(s), name)
    ELSE Without(Tail(s), name)

\* The server's presence list changes: a participant's socket joins the
\* room under the name it gave, or leaves it
PresenceJoin(name) ==
    /\ Len(presence) < MaxList
    /\ presence' = Append(presence, name)
    /\ UNCHANGED <<phase, token, roomId, socket, cleanup, conns, fetches, messages,
                   input, file, roomTitle, menuItems, onlineUsers, notice, nav,
                   uploads, uploadCount, emitted, nextId, lastEvent>>

PresenceLeave(i) ==
    /\ presence' = RemoveAt(presence, i)
    /\ UNCHANGED <<phase, token, roomId, socket, cleanup, conns, fetches, messages,
                   input, file, roomTitle, menuItems, onlineUsers, notice, nav,
                   uploads, uploadCount, emitted, nextId, lastEvent>>

\* "userList" (line 136), carrying the server's current list
UserList(c) ==
    /\ Live(c)
    /\ onlineUsers' = normalizeUserList(presence)
    /\ UNCHANGED <<phase, token, roomId, socket, cleanup, conns, fetches, messages,
                   input, file, roomTitle, menuItems, notice, nav, uploads,
                   uploadCount, emitted, nextId, lastEvent, presence>>

\* "userJoined" (lines 138-140)
UserJoined(c, name) ==
    /\ Live(c)
    /\ notice' = IF name # DisplayName THEN "joined the room" ELSE notice
    /\ UNCHANGED <<phase, token, roomId, socket, cleanup, conns, fetches, messages,
                   input, file, roomTitle, menuItems, onlineUsers, nav, uploads,
                   uploadCount, emitted, nextId, lastEvent, presence>>

\* A userLeft that only shows the notice, as userJoined does
UserLeftNoticeOnly(c, name) ==
    /\ Live(c)
    /\ notice' = IF name # DisplayName THEN "left the room" ELSE notice
    /\ UNCHANGED <<phase, token, roomId, socket, cleanup, conns, fetches, messages,
                   input, file, roomTitle, menuItems, onlineUsers, nav, uploads,
                   uploadCount, emitted, nextId, lastEvent, presence>>

\* "userLeft" (lines 142-145)
UserLeft(c, name) ==
    /\ Live(c)
    /\ notice' = IF name # DisplayName THEN "left the room" ELSE notice
    /\ onlineUsers' = normalizeUserList(Without(onlineUsers, name))
    /\ UNCHANGED <<phase, token, roomId, socket, cleanup, conns, fetches, messages,
                   input, file, roomTitle, menuItems, nav, uploads, uploadCount,
                   emitted, nextId, lastEvent, presence>>

----------------------------------------------------------------------------
(* The bill split (lines 219-221, 299).  A quotient is kept exact, as the   *)
(* pair of its numerator and denominator.                                   *)

Quotient(a, b) == [num |-> a, den |-> b]

\* menuItems.reduce((sum, item) => sum + (item.price || 0), 0)
RECURSIVE Reduce(_)
Reduce(items) ==
    IF items = <<>> THEN 0
    ELSE Reduce(SubSeq(items, 1, Len(items) - 1))
         + (IF items[Len(items)].price # 0 THEN items[Len(items)].price ELSE 0)

totalBill == Reduce(menuItems)

\* The count without the local user
totalParticipantsOthersOnly == Len(onlineUsers)

totalParticipants == 1 + Len(onlineUsers)
eachShare ==
    IF totalParticipants > 0 THEN Quotient(totalBill, totalParticipants)
    ELSE Quotient(totalBill, 1)

\* "Each User Pays" as rendered (line 299)
eachUserPays == Quotient(totalBill, Len(onlineUsers) + 1)

----------------------------------------------------------------------------
(* The input bar and handleSend *)

\* onChange of the text input (line 388)
SetInput(v) ==
    /\ Mounted
    /\ v # input
    /\ input' = v
    /\ UNCHANGED <<phase, token, roomId, socket, cleanup, conns, fetches, messages,
                   file, roomTitle, menuItems, onlineUsers, notice, nav, uploads,
                   uploadCount, emitted, nextId, lastEvent, presence>>

\* onChange of the file picker (line 401) and the X next to it (line 410)
SetFile(f) ==
    /\ Mounted
    /\ f # file
    /\ file' = f
    /\ UNCHANGED <<phase, token, roomId, socket, cleanup, conns, fetches, messages,
                   input, roomTitle, menuItems, onlineUsers, notice, nav, uploads,
                   uploadCount, emitted, nextId, lastEvent, presence>>

\* The condition without the trim
HasTextNoTrim(v) == v # <<>>

\* input.trim() as a condition (lines 169, 171, 418)
HasText(v) == Trim(v) # <<>>

\* handleSend up to its await (lines 168-193): the guard, the text branch, and
\* the upload request of the file branch
HandleSend ==
    /\ Mounted
    /\ IF socket = NoSocket \/ (~HasText(input) /\ file = NoFile)
       THEN UNCHANGED vars
       ELSE LET sendText == HasText(input)
                sendFile == file # NoFile
                msg == TextMsg(LocalId(nextId + 1), Trim(input), roomId)
            IN /\ sendText => nextId < MaxSends
               /\ sendFile => uploadCount < MaxUploads
               /\ messages' = IF sendText THEN Append(messages, msg) ELSE messages
               /\ emitted' = IF sendText
                             THEN Emit("sendMessage", socket, roomId, msg)
                             ELSE emitted
               /\ input' = IF sendText THEN <<>> ELSE input
               /\ nextId' = IF sendText THEN nextId + 1 ELSE nextId
               /\ uploads' = IF sendFile
                             THEN Append(uploads,
                                         [file |-> file, socket |-> socket,
                                          room |-> roomId, token |-> token])
                             ELSE uploads
               /\ uploadCount' = IF sendFile THEN uploadCount + 1 ELSE uploadCount
               /\ UNCHANGED <<phase, token, roomId, socket, cleanup, conns, fetches,
                              file, roomTitle, menuItems, onlineUsers, notice, nav,
                              lastEvent, presence>>

\* The continuation appending the proof without looking its id up
UploadOkNoDedup(i, pid) ==
    /\ uploads[i].token
    /\ RoomOf(pid) = uploads[i].room
    /\ LET proofMsg == ProofMsg(pid, uploads[i].room)
       IN /\ emitted' = Emit("sendProof", uploads[i].socket, uploads[i].room,
                               proofMsg)
          /\ messages' = SetState(messages, Append(messages, proofMsg))
    /\ file' = SetState(file, NoFile)
    /\ notice' = "File sent!"
    /\ uploads' = RemoveAt(uploads, i)
    /\ UNCHANGED <<phase, token, roomId, socket, cleanup, conns, fetches, input,
                   roomTitle, menuItems, onlineUsers, nav, uploadCount, nextId,
                   lastEvent, presence>>

\* handleSend after its await, the upload answered OK (lines 194-211)
UploadOk(i, pid) ==
    /\ uploads[i].token
    /\ RoomOf(pid) = uploads[i].room
    /\ LET proofMsg == ProofMsg(pid, uploads[i].room)
       IN /\ emitted' = Emit("sendProof", uploads[i].socket, uploads[i].room,
                               proofMsg)
          /\ messages' = SetState(messages,
                                  IF HasId(messages, pid) THEN messages
                                  ELSE Append(messages, proofMsg))
    /\ file' = SetState(file, NoFile)
    /\ notice' = "File sent!"
    /\ uploads' = RemoveAt(uploads, i)
    /\ UNCHANGED <<phase, token, roomId, socket, cleanup, conns, fetches, input,
                   roomTitle, menuItems, onlineUsers, nav, uploadCount, nextId,
                   lastEvent, presence>>

\* An upload failure that also resets the file picker
UploadFailClearsFile(i) ==
    /\ notice' = "Error sending file"
    /\ uploads' = RemoveAt(uploads, i)
    /\ file' = SetState(file, NoFile)
    /\ UNCHANGED <<phase, token, roomId, socket, cleanup, conns, fetches, messages,
                   input, roomTitle, menuItems, onlineUsers, nav, uploadCount,
                   emitted, nextId, lastEvent, presence>>

\* handleSend after its await, the upload failed (lines 194, 212-215)
UploadFail(i) ==
    /\ notice' = "Error sending file"
    /\ uploads' = RemoveAt(uploads, i)
    /\ UNCHANGED <<phase, token, roomId, socket, cleanup, conns, fetches, messages,
                   input, file, roomTitle, menuItems, onlineUsers, nav, uploadCount,
                   emitted, nextId, lastEvent, presence>>

----------------------------------------------------------------------------
(* The second variant of the view (lines 432-690).  Its state, its loader   *)
(* effect, its socket effect's set-up and cleanup and its input bar are      *)
(* those of the first variant; its connect handler, its inbound handlers     *)
(* and its handleSend differ and are given here.                             *)

\* "connect" (lines 541-544): joinRoom with the room and an acknowledgement
Connect2(c) ==
    /\ conns[c].state = "connecting"
    /\ conns' = [conns EXCEPT ![c].state = "connected"]
    /\ emitted' = Emit("joinRoom", c, conns[c].room, ProofMsg(0, 0))
    /\ UNCHANGED <<phase, token, roomId, socket, cleanup, fetches, messages, input,
                   file, roomTitle, menuItems, onlineUsers, notice, nav, uploads,
                   uploadCount, nextId, lastEvent, presence>>

\* "newMessage" (lines 547-550)
NewMessage(c, msg) ==
    /\ Live(c)
    /\ Len(messages) < MaxMsgs
    /\ lastEvent' = [ev |-> "newMessage", arg |-> <<msg.id>>]
    /\ messages' = Append(messages, msg)
    /\ UNCHANGED <<phase, token, roomId, socket, cleanup, conns, fetches, input,
                   file, roomTitle, menuItems, onlineUsers, notice, nav, uploads,
                   uploadCount, emitted, nextId, presence>>

\* "newProof" (lines 552-560)
NewProof(c, proof) ==
    /\ Live(c)
    /\ Len(messages) < MaxMsgs
    /\ lastEvent' = [ev |-> "newProof", arg |-> <<proof.id>>]
    /\ LET newMsg == [id |-> proof.id,
                      senderName |-> IF proof.senderName # <<>>
                                     THEN proof.senderName ELSE DisplayName,
                      text |-> <<>>,
                      proofUrl |-> proof.proofUrl,
                      createdAt |-> IF proof.createdAt # 0
                                    THEN proof.createdAt ELSE Now,
                      roomId |-> 0]
       IN messages' = Append(messages, newMsg)
    /\ UNCHANGED <<phase, token, roomId, socket, cleanup, conns, fetches, input,
                   file, roomTitle, menuItems, onlineUsers, notice, nav, uploads,
                   uploadCount, emitted, nextId, presence>>

\* handleSend of the second variant up to its await (lines 569-593): the
\* listed message has no roomId and the untrimmed input as text; the emitted
\* one is { ...msg, roomId }
HandleSend2 ==
    /\ Mounted
    /\ IF ~HasText(input) /\ file = NoFile
       THEN UNCHANGED vars
       ELSE LET sendText == HasText(input) /\ socket # NoSocket
                sendFile == file # NoFile /\ token
                msg == [TextMsg(LocalId(nextId + 1), input, roomId)
                            EXCEPT !.roomId = 0]
            IN /\ sendText => nextId < MaxSends /\ Len(messages) < MaxMsgs
               /\ sendFile => uploadCount < MaxUploads
               /\ emitted' = IF sendText
                             THEN Emit("sendMessage", socket, roomId,
                                       [msg EXCEPT !.roomId = roomId])
                             ELSE emitted
               /\ messages' = IF sendText THEN Append(messages, msg) ELSE messages
               /\ input' = IF sendText THEN <<>> ELSE input
               /\ nextId' = IF sendText THEN nextId + 1 ELSE nextId
               /\ uploads' = IF sendFile
                             THEN Append(uploads,
                                         [file |-> file, socket |-> socket,
                                          room |-> roomId, token |-> token])
                             ELSE uploads
               /\ uploadCount' = IF sendFile THEN uploadCount + 1 ELSE uploadCount
               /\ UNCHANGED <<phase, token, roomId, socket, cleanup, conns, fetches,
                              file, roomTitle, menuItems, onlineUsers, notice, nav,
                              lastEvent, presence>>

\* handleSend of the second variant after its await, the upload answered OK
\* (lines 594-607)
Upload2Ok(i, pid) ==
    /\ RoomOf(pid) = uploads[i].room
    /\ Len(messages) < MaxMsgs
    /\ LET proofMsg == ProofMsg(pid, 0)
       IN /\ emitted' = IF uploads[i].socket # NoSocket
                         THEN Emit("sendProof", uploads[i].socket, uploads[i].room,
                                   [proofMsg EXCEPT !.roomId = uploads[i].room])
                         ELSE emitted
          /\ messages' = SetState(messages, Append(messages, proofMsg))
    /\ file' = SetState(file, NoFile)
    /\ notice' = "File sent!"
    /\ uploads' = RemoveAt(uploads, i)
    /\ UNCHANGED <<phase, token, roomId, socket, cleanup, conns, fetches, input,
                   roomTitle, menuItems, onlineUsers, nav, uploadCount, nextId,
                   lastEvent, presence>>

\* handleSend of the second variant after its await, the upload failed
\* (lines 594, 608-611)
Upload2Fail(i) ==
    /\ notice' = "Error sending file"
    /\ uploads' = RemoveAt(uploads, i)
    /\ UNCHANGED <<phase, token, roomId, socket, cleanup, conns, fetches, messages,
                   input, file, roomTitle, menuItems, onlineUsers, nav, uploadCount,
                   emitted, nextId, lastEvent, presence>>

----------------------------------------------------------------------------
(* Specifications.  The handlers are checked in slices: each slice holds    *)
(* the handlers that write the state its properties read, and the handlers  *)
(* whose effects those handlers' guards read.                               *)

\* Messages and sends during one room visit: the history fetch, the live
\* events, handleSend and its upload
Next ==
    \/ Mount
    \/ Unmount
    \/ \E k \in 1..Len(fetches) :
          \E hist \in Histories(fetches[k].room) : FetchMessagesOk(k, hist)
    \/ \E k \in 1..Len(fetches) : FetchMessagesFail(k)
    \/ \E c \in 1..Len(conns) : Connect(c)
    \/ \E c \in 1..Len(conns) :
          \E m \in {x \in ServerHolds(conns[c].room) : ~x.proofUrl} :
              ReceiveMessage(c, m)
    \/ \E c \in 1..Len(conns) :
          \E m \in {x \in ServerHolds(conns[c].room) : x.proofUrl} :
              ReceiveProof(c, m)
    \/ \E v \in Inputs : SetInput(v)
    \/ \E f \in Files \cup {NoFile} : SetFile(f)
    \/ HandleSend
    \/ \E i \in 1..Len(uploads), pid \in ProofIds : UploadOk(i, pid)
    \/ \E i \in 1..Len(uploads) : UploadFail(i)

Spec == Init /\ [][Next]_vars

\* The connection's lifecycle: every run and cleanup of the socket effect,
\* with the connection's own events
LifecycleNext ==
    \/ Mount
    \/ \E r \in Rooms : RoomChange(r)
    \/ TokenRemoved
    \/ Unmount
    \/ \E c \in 1..Len(conns) : Connect(c)
    \/ \E c \in 1..Len(conns) : ConnectError(c)
    \/ \E c \in 1..Len(conns) :
          \E m \in {x \in ServerHolds(conns[c].room) : ~x.proofUrl} :
              ReceiveMessage(c, m)
    \/ \E c \in 1..Len(conns) :
          \E m \in {x \in ServerHolds(conns[c].room) : x.proofUrl} :
              ReceiveProof(c, m)

LifecycleSpec == Init /\ [][LifecycleNext]_vars

\* The loader: every run of the fetch effect and the outcomes of its two
\* fetches
LoaderNext ==
    \/ Mount
    \/ \E r \in Rooms : RoomChange(r)
    \/ TokenRemoved
    \/ Unmount
    \/ \E k \in 1..Len(fetches), menu \in SessionMenus : FetchRoomOk(k, menu)
    \/ \E k \in 1..Len(fetches) : FetchRoomFail(k)
    \/ \E k \in 1..Len(fetches) :
          \E hist \in Histories(fetches[k].room) : FetchMessagesOk(k, hist)
    \/ \E k \in 1..Len(fetches) : FetchMessagesFail(k)

LoaderSpec == Init /\ [][LoaderNext]_vars

\* Presence: the server's list, and the presence events of a live connection
PresenceNext ==
    \/ Mount
    \/ \E c \in 1..Len(conns) : Connect(c)
    \/ \E name \in PresenceNames : PresenceJoin(name)
    \/ \E i \in 1..Len(presence) : PresenceLeave(i)
    \/ \E c \in 1..Len(conns) : UserList(c)
    \/ \E c \in 1..Len(conns), name \in PresenceNames : UserJoined(c, name)
    \/ \E c \in 1..Len(conns), name \in PresenceNames : UserLeft(c, name)

PresenceSpec == Init /\ [][PresenceNext]_vars

\* The bill split: the room fetch that sets the menu, and the presence events
\* that set the participants
BillNext ==
    \/ Mount
    \/ \E c \in 1..Len(conns) : Connect(c)
    \/ \E k \in 1..Len(fetches), menu \in Menus : FetchRoomOk(k, menu)
    \/ \E name \in BillNames : PresenceJoin(name)
    \/ \E c \in 1..Len(conns) : UserList(c)
    \/ \E c \in 1..Len(conns), name \in BillNames : UserLeft(c, name)

BillSpec == Init /\ [][BillNext]_vars

\* The second variant: its sends and its inbound events during one room visit
Variant2Next ==
    \/ Mount
    \/ \E c \in 1..Len(conns) : Connect2(c)
    \/ \E c \in 1..Len(conns) :
          \E m \in {x \in ServerHolds(conns[c].room) : ~x.proofUrl} :
              NewMessage(c, m)
    \/ \E c \in 1..Len(conns) :
          \E m \in {x \in ServerHolds(conns[c].room) : x.proofUrl} :
              NewProof(c, m)
    \/ \E v \in Inputs : SetInput(v)
    \/ \E f \in Files \cup {NoFile} : SetFile(f)
    \/ HandleSend2
    \/ \E i \in 1..Len(uploads), pid \in ProofIds : Upload2Ok(i, pid)
    \/ \E i \in 1..Len(uploads) : Upload2Fail(i)

Variant2Spec == Init /\ [][Variant2Next]_vars

----------------------------------------------------------------------------
(* Properties *)

Range(s) == {s[i] : i \in 1..Len(s)}
Emitted(ev) == {e \in BagToSet(emitted) : e.ev = ev}

\* C1: whatever the interleaving of the history load, receiveMessage,
\* receiveProof, text sends and file sends, no two entries of the message
\* list have the same id (Spec).
C1_NoDuplicateIds ==
    \A i, j \in 1..Len(messages) : messages[i].id = messages[j].id => i = j

\* C1 witness: message 1 was delivered by the history fetch (its entry has the
\* loader's shape, without roomId) and by a live receiveMessage, and is listed once
C1_Witness ==
    /\ lastEvent = [ev |-> "receiveMessage", arg |-> <<1>>]
    /\ Len(fetches) = 1 /\ fetches[1].msgSt = "ok"
    /\ Cardinality({i \in 1..Len(messages) : messages[i].id = 1}) = 1
    /\ \E i \in 1..Len(messages) : messages[i].id = 1 /\ messages[i].roomId = 0
    /\ Len(messages) = 2

\* C2: every connection whose effect has been torn down (it is no longer the
\* one the pending cleanup holds) has had disconnect called exactly once, and
\* the connection of the pending cleanup not yet; whatever the connection's
\* state was (LifecycleSpec).
C2_DisconnectOnce ==
    \A c \in 1..Len(conns) :
        conns[c].disc = (IF c = cleanup THEN 0 ELSE 1)

\* C2 witness: after unmount, two connections each disconnected once: the
\* first was connected (it had joined and processed an event) when its
\* effect was torn down, the second still connecting
C2_Witness ==
    /\ phase = "unmounted"
    /\ Len(conns) = 2
    /\ conns[1].disc = 1 /\ conns[2].disc = 1
    /\ {e.conn : e \in Emitted("joinRoom")} = {1}
    /\ lastEvent.ev \in {"receiveMessage", "receiveProof"}

OpenConns == {c \in 1..Len(conns) : conns[c].disc = 0}

\* C3: at most one connection is not yet disconnected; while mounted with a
\* token it is the latest one; and the mount opens exactly one connection
\* when a token is present, none otherwise (LifecycleSpec).
C3_OneOpenConnection ==
    /\ [](/\ Cardinality(OpenConns) <= 1
          /\ (Mounted /\ token) => OpenConns = {Len(conns)}
          /\ ~(Mounted /\ token) => OpenConns = {})
    /\ [][(phase = "init" /\ phase' = "mounted")
            => Len(conns') = (IF token THEN 1 ELSE 0)]_vars

\* C3 witness: after a room change, the first connection is closed and the
\* second is the only open one
C3_Witness ==
    /\ Mounted
    /\ Len(conns) = 2
    /\ conns[1].disc = 1
    /\ OpenConns = {2}
    /\ conns[2].room # conns[1].room

NoRepeat(s) == \A i, j \in 1..Len(s) : s[i] = s[j] => i = j
FirstIndex(s, x) == CHOOSE i \in 1..Len(s) : s[i] = x /\ \A j \in 1..(i - 1) : s[j] # x

\* C4: a userList event sets the online participants to the names of the
\* received list that are not blank and not the local display name, each once,
\* in the order of their first occurrence: a value fixed by the list and the
\* display name alone.  In every state the online participants hold no
\* repeated name, no blank name and not the local display name (PresenceSpec).
C4_UserListNormalized ==
    /\ [](/\ NoRepeat(onlineUsers)
          /\ \A u \in Range(onlineUsers) :
                /\ u # <<>>
                /\ \E i \in 1..Len(u) : u[i] # SP
                /\ u # DisplayName)
    /\ [][(\E c \in 1..Len(conns) : UserList(c))
            => /\ NoRepeat(onlineUsers')
               /\ Range(onlineUsers') =
                      {u \in Range(presence) :
                          /\ \E i \in 1..Len(u) : u[i] # SP
                          /\ u # DisplayName}
               /\ \A i, j \in 1..Len(onlineUsers') :
                      i < j => FirstIndex(presence, onlineUsers'[i])
                               < FirstIndex(presence, onlineUsers'[j])]_vars

\* C4 witness: a list naming Bob twice and the local user was applied
C4_Witness ==
    /\ presence = <<Bob, DisplayName, Bob>>
    /\ onlineUsers = <<Bob>>

\* C5: the step that handles a failed upload leaves the selected file and the
\* message list as they are, shows the error notice, emits nothing and issues
\* no further upload (Spec).
C5_UploadFailure ==
    [][(\E i \in 1..Len(uploads) : UploadFail(i))
        => /\ file' = file
           /\ messages' = messages
           /\ notice' = "Error sending file"
           /\ emitted' = emitted
           /\ uploadCount' = uploadCount
           /\ Len(uploads') = Len(uploads) - 1]_vars

\* C5 witness: the only upload has failed; the file is still selected and
\* the list is empty
C5_Witness ==
    /\ notice = "Error sending file"
    /\ file # NoFile
    /\ uploadCount = 1 /\ uploads = <<>>
    /\ messages = <<>>

\* C6 as claimed: an invocation of handleSend with a blank input, the
\* continuation after its await included, changes neither the message list nor
\* the input field, a file being selected or not.  While no text has been sent
\* (nextId = 0), every pending continuation is of a blank-input invocation (Spec).
C6_BlankSendChangesNothing ==
    [][(\/ HandleSend /\ Trim(input) = <<>>
        \/ /\ nextId = 0
           /\ \E i \in 1..Len(uploads) :
                 \/ \E pid \in ProofIds : UploadOk(i, pid)
                 \/ UploadFail(i))
        => messages' = messages /\ input' = input]_vars

\* C6 as amended: with a blank input, handleSend up to its await changes
\* neither the message list nor the input field, emits nothing and generates
\* no id; it issues an upload exactly when a socket and a file are set; and
\* the continuation of an invocation, of such a one in particular, leaves the
\* input field unchanged and changes the message list only by appending the
\* uploaded proof, when its id is not yet listed (Spec).
C6_BlankSendNoText ==
    [][/\ (HandleSend /\ Trim(input) = <<>>)
            => /\ messages' = messages
               /\ input' = input
               /\ emitted' = emitted
               /\ nextId' = nextId
               /\ file' = file
               /\ uploads' = IF socket # NoSocket /\ file # NoFile
                             THEN Append(uploads,
                                         [file |-> file, socket |-> socket,
                                          room |-> roomId, token |-> token])
                             ELSE uploads
       /\ \A i \in 1..Len(uploads) : \A pid \in ProofIds :
            UploadOk(i, pid)
                => /\ input' = input
                   /\ \/ messages' = messages /\ (HasId(messages, pid) \/ ~Mounted)
                      \/ /\ messages' = Append(messages, ProofMsg(pid, uploads[i].room))
                         /\ ~HasId(messages, pid)]_vars

\* C6 witness: no text was ever sent, the input holds one space, and the
\* file sent with it is in the list
C6_Witness ==
    /\ input = <<SP>>
    /\ nextId = 0
    /\ notice = "File sent!"
    /\ uploads = <<>>
    /\ Emitted("sendProof") # {}
    /\ Len(messages) = 1 /\ messages[1].proofUrl
    /\ lastEvent = NoEvent
    /\ \A k \in 1..Len(fetches) : fetches[k].msgSt # "ok"

RECURSIVE SumPrices(_)
SumPrices(items) ==
    IF items = <<>> THEN 0 ELSE Head(items).price + SumPrices(Tail(items))

Others == Range(onlineUsers)

\* C7: the total is the sum of the menu prices; the participant count is one
\* more than the number of distinct online participants and at least 1; the
\* share, as computed and as rendered, is the total over that count; a total
\* of 100 gives 100 with no other participant and 25 with three (BillSpec).
C7_BillSplit ==
    /\ totalBill = SumPrices(menuItems)
    /\ totalParticipants = 1 + Cardinality(Others)
    /\ totalParticipants >= 1
    /\ eachShare = Quotient(totalBill, 1 + Cardinality(Others))
    /\ eachUserPays = eachShare
    /\ (totalBill = 100 /\ Cardinality(Others) = 0)
          => eachShare.num = 100 * eachShare.den
    /\ (totalBill = 100 /\ Cardinality(Others) = 3)
          => eachShare.num = 25 * eachShare.den

\* C7 witness: a total of 100 split with three other participants
C7_Witness ==
    /\ totalBill = 100
    /\ Cardinality(Others) = 3
    /\ eachShare.num = 25 * eachShare.den
    /\ Len(menuItems) = 2

\* C8: once mounted without a token, the component has navigated to the
\* login view, has issued no fetch and opened no connection, and no send has
\* appended, emitted or uploaded anything (Spec).
C8_NoTokenNoInteraction ==
    (phase # "init" /\ ~token)
        => /\ nav = "login"
           /\ notice = "Unauthorized"
           /\ fetches = <<>>
           /\ conns = <<>>
           /\ socket = NoSocket
           /\ messages = <<>>
           /\ emitted = EmptyBag
           /\ uploads = <<>> /\ uploadCount = 0

\* C8 witness: mounted without a token, with a text typed and a file selected
C8_Witness ==
    /\ Mounted /\ ~token
    /\ nav = "login"
    /\ HasText(input)
    /\ file # NoFile
    /\ ENABLED HandleSend

\* C9: the step that handles a failed message fetch changes neither the
\* message list nor the navigation, the notice or the connection; while no
\* message fetch has succeeded the list holds no entry of the loader's; and
\* after the failure a receiveMessage from another sender with an unlisted id
\* is still appended (Spec).
C9_HistoryFailureNonFatal ==
    /\ []((\A k \in 1..Len(fetches) : fetches[k].msgSt # "ok")
            => \A i \in 1..Len(messages) : messages[i].roomId # 0)
    /\ [][/\ (\E k \in 1..Len(fetches) : FetchMessagesFail(k))
              => /\ messages' = messages
                 /\ nav' = nav
                 /\ notice' = notice
                 /\ conns' = conns
                 /\ socket' = socket
          /\ \A c \in 1..Len(conns) : \A m \in ServerHolds(conns[c].room) :
               (/\ \E k \in 1..Len(fetches) : fetches[k].msgSt = "failed"
                /\ m.senderName # DisplayName
                /\ ~HasId(messages, m.id)
                /\ ReceiveMessage(c, m))
                   => messages' = Append(messages, m)]_vars

\* C9 witness: the message fetch has failed, nothing was shown or navigated,
\* and a live message is in the list
C9_Witness ==
    /\ Len(fetches) = 1 /\ fetches[1].msgSt = "failed"
    /\ nav = "none" /\ notice = "none"
    /\ messages = <<ServerMsg(1)>>
    /\ lastEvent = [ev |-> "receiveMessage", arg |-> <<1>>]

\* C10: the step that handles a failed room fetch shows the error notice and
\* navigates to the rooms list, and changes neither the title, the menu, the
\* message list nor the state of any message fetch; while no room fetch has
\* succeeded the title and the menu are unset (LoaderSpec).
C10_RoomFailureFatal ==
    /\ []((\A k \in 1..Len(fetches) : fetches[k].roomSt # "ok")
            => roomTitle = 0 /\ menuItems = <<>>)
    /\ [][(\E k \in 1..Len(fetches) : FetchRoomFail(k))
            => /\ notice' = "Error"
               /\ nav' = "rooms"
               /\ roomTitle' = roomTitle
               /\ menuItems' = menuItems
               /\ messages' = messages
               /\ \A k \in 1..Len(fetches) : fetches'[k].msgSt = fetches[k].msgSt]_vars

\* C10 witness: the room fetch failed although the message fetch succeeded
C10_Witness ==
    /\ Len(fetches) = 1
    /\ fetches[1].roomSt = "failed" /\ fetches[1].msgSt = "ok"
    /\ messages # <<>>
    /\ notice = "Error" /\ nav = "rooms"
    /\ roomTitle = 0 /\ menuItems = <<>>

\* C11 as claimed: while the view stays mounted for a room, every id in the
\* message list is still in the list after the step, whichever handler takes
\* it (Spec).
C11_ListOnlyGrows ==
    [][(Mounted /\ phase' = "mounted" /\ roomId' = roomId)
        => \A i \in 1..Len(messages) : HasId(messages', messages[i].id)]_vars

\* C11: the state the history fetch leaves after a live message and an
\* optimistic send were listed: the list is the payload alone
C11_Witness ==
    /\ Mounted
    /\ Len(fetches) = 1 /\ fetches[1].msgSt = "ok"
    /\ lastEvent = [ev |-> "receiveMessage", arg |-> <<1>>]
    /\ nextId = 1
    /\ Emitted("sendMessage") # {}
    /\ messages = <<>>

\* C12 as claimed: at most one upload issued by handleSend is awaiting its
\* response (Spec).
C12_OneUploadInFlight == Len(uploads) <= 1

\* C12: two uploads of the same file, issued by two invocations on the same
\* socket, are both awaiting their response
C12_Witness ==
    /\ Len(uploads) = 2
    /\ uploads[1] = uploads[2]
    /\ file = uploads[1].file
    /\ uploadCount = 2

\* C13: a receiveMessage whose sender is the local display name leaves the
\* message list unchanged; one from another sender leaves it unchanged when
\* an entry has its id, and otherwise puts the message after the entries
\* already listed, which stay as they are (Spec).
C13_ReceiveMessage ==
    [][\A c \in 1..Len(conns) : \A m \in ServerHolds(conns[c].room) :
         ReceiveMessage(c, m)
            => /\ m.senderName = DisplayName => messages' = messages
               /\ (/\ m.senderName # DisplayName
                   /\ \E i \in 1..Len(messages) : messages[i].id = m.id)
                      => messages' = messages
               /\ (/\ m.senderName # DisplayName
                   /\ \A i \in 1..Len(messages) : messages[i].id # m.id)
                      => /\ Len(messages') = Len(messages) + 1
                         /\ messages'[Len(messages')] = m
                         /\ SubSeq(messages', 1, Len(messages)) = messages]_vars

\* C13 witness: the echo of the user's own text was received while the list,
\* replaced by the history, held Bob's message and not that text
C13_Witness ==
    /\ lastEvent = [ev |-> "receiveMessage", arg |-> <<LocalId(1)>>]
    /\ Emitted("sendMessage") # {}
    /\ ~HasId(messages, LocalId(1))
    /\ HasId(messages, 1)

\* C14: a receiveProof leaves the message list unchanged when an entry has
\* its id, and otherwise puts the proof after the entries already listed,
\* which stay as they are; whether the proof's sender is the local display
\* name or not (LifecycleSpec).
C14_ReceiveProof ==
    [][\A c \in 1..Len(conns) : \A m \in ServerHolds(conns[c].room) :
         ReceiveProof(c, m)
            => /\ (\E i \in 1..Len(messages) : messages[i].id = m.id)
                      => messages' = messages
               /\ (\A i \in 1..Len(messages) : messages[i].id # m.id)
                      => /\ Len(messages') = Len(messages) + 1
                         /\ messages'[Len(messages')] = m
                         /\ SubSeq(messages', 1, Len(messages)) = messages]_vars

\* C14 witness: the user's own proof and Bob's proof were both appended by
\* receiveProof, and the user's own was then received again
C14_Witness ==
    /\ messages = <<ServerMsg(4), ServerMsg(BobProofId)>>
    /\ messages[1].senderName = DisplayName
    /\ messages[2].senderName = Bob
    /\ lastEvent = [ev |-> "receiveProof", arg |-> <<4>>]

Occurrences(list, id) == Cardinality({j \in 1..Len(list) : list[j].id = id})

\* C15: the step that completes a successful upload emits one sendProof with
\* the proof on the socket of the invocation and nothing else, and shows the
\* success notice; while the view is mounted it leaves the proof exactly once
\* in the message list, appended if no entry had its id, the list as it was
\* if receiveProof had already listed it, and it clears the selected file
\* (Spec).
C15_FileSendCompletes ==
    [][\A i \in 1..Len(uploads) : \A pid \in ProofIds :
         UploadOk(i, pid)
            => /\ emitted' = emitted (+) SetToBag({[ev |-> "sendProof",
                                 conn |-> uploads[i].socket,
                                 room |-> uploads[i].room,
                                 msg |-> ProofMsg(pid, uploads[i].room)]})
               /\ notice' = "File sent!"
               /\ Mounted
                    => /\ Occurrences(messages', pid) = 1
                       /\ Occurrences(messages, pid) = 1 => messages' = messages
                       /\ Occurrences(messages, pid) = 0
                            => messages' = Append(messages,
                                                   ProofMsg(pid, uploads[i].room))
                       /\ file' = NoFile]_vars

\* C15 witness: the echo and the local append have both happened for the one
\* upload issued; the proof is listed once, after Bob's message
C15_Witness ==
    /\ Mounted
    /\ uploadCount = 1 /\ uploads = <<>>
    /\ notice = "File sent!"
    /\ file = NoFile
    /\ lastEvent = [ev |-> "receiveProof", arg |-> <<2>>]
    /\ messages = <<ServerMsg(1), ServerMsg(2)>>
    /\ BagCardinality(emitted) = 2
    /\ Cardinality(Emitted("sendProof")) = 1

Blank(s) == \A i \in 1..Len(s) : s[i] = SP

\* t is s without its leading and trailing whitespace
Trimmed(t, s) ==
    /\ t # <<>> => t[1] # SP /\ t[Len(t)] # SP
    /\ \E a, b \in 0..Len(s) :
          /\ a + Len(t) + b = Len(s)
          /\ Blank(SubSeq(s, 1, a))
          /\ SubSeq(s, a + 1, a + Len(t)) = t
          /\ Blank(SubSeq(s, a + Len(t) + 1, Len(s)))

\* C16: handleSend with a socket set and an input that is not blank, in the
\* one step up to its await and whatever the connection's state, puts one
\* message after the entries already listed: its id is in no entry and was
\* never emitted, its sender is the local display name, its text is the input
\* without its surrounding whitespace, its room is the current room; the step
\* emits sendMessage once, on the socket, with that message, and empties the
\* input.  No sendMessage is ever emitted a second time: there are always as
\* many of them as ids generated, each once (Spec).
C16_TextSend ==
    /\ [](/\ \A e \in Emitted("sendMessage") : CopiesIn(e, emitted) = 1
          /\ Cardinality(Emitted("sendMessage")) = nextId
          /\ \A e, f \in Emitted("sendMessage") : e.msg.id = f.msg.id => e = f)
    /\ [][(HandleSend /\ socket # NoSocket /\ ~Blank(input))
            => LET msg == messages'[Len(messages')]
               IN /\ Len(messages') = Len(messages) + 1
                  /\ SubSeq(messages', 1, Len(messages)) = messages
                  /\ ~HasId(messages, msg.id)
                  /\ msg.id \notin ServerIds
                  /\ \A e \in Emitted("sendMessage") : e.msg.id # msg.id
                  /\ msg.senderName = DisplayName
                  /\ Trimmed(msg.text, input)
                  /\ msg.roomId = roomId
                  /\ ~msg.proofUrl
                  /\ emitted' = emitted (+) SetToBag({[ev |-> "sendMessage",
                                    conn |-> socket, room |-> roomId, msg |-> msg]})
                  /\ input' = <<>>]_vars

\* C16 witness: a text was sent while the connection was still connecting;
\* it is listed, trimmed, and emitted once, and the input is empty
C16_Witness ==
    /\ Mounted
    /\ socket # NoSocket
    /\ conns[socket].state = "connecting"
    /\ nextId = 1
    /\ messages = <<TextMsg(LocalId(1), <<"a">>, 1)>>
    /\ input = <<>>
    /\ BagCardinality(emitted) = 1
    /\ Emitted("sendMessage") # {}
    /\ uploadCount = 0

\* C17: a userLeft(name) leaves in the online participants exactly those
\* that were there and are not name, in their order, the list having been
\* set by a userList or being still the initial empty one, and leaves the
\* message list unchanged; it shows its notice unless name is the local
\* display name, and so does userJoined (PresenceSpec).
C17_UserLeft ==
    [][/\ \A c \in 1..Len(conns) : \A name \in PresenceNames :
            UserLeft(c, name)
               => /\ Range(onlineUsers') = Range(onlineUsers) \ {name}
                  /\ NoRepeat(onlineUsers')
                  /\ \A i, j \in 1..Len(onlineUsers') :
                        i < j => FirstIndex(onlineUsers, onlineUsers'[i])
                                 < FirstIndex(onlineUsers, onlineUsers'[j])
                  /\ messages' = messages
                  /\ name = DisplayName => notice' = notice
                  /\ name # DisplayName => notice' = "left the room"
       /\ \A c \in 1..Len(conns) : \A name \in PresenceNames :
            UserJoined(c, name)
               => /\ name = DisplayName => notice' = notice
                  /\ name # DisplayName => notice' = "joined the room"]_vars

\* C17 witness: Bob was removed by userLeft from a list that held Bob and
\* " b", which the server's list still names
C17_Witness ==
    /\ presence = <<Bob, <<SP, "b">>>>
    /\ onlineUsers = <<<<SP, "b">>>>
    /\ notice = "left the room"

JoinRoom(c) ==
    [ev |-> "joinRoom", conn |-> c, room |-> roomId, msg |-> ProofMsg(0, 0)]

\* C18: a connect happens only on the connection of the pending cleanup,
\* which is the socket in state, and emits one joinRoom there with the
\* current room and the local display name; every joinRoom was emitted once,
\* on a connection that has connected, with that connection's room, and a
\* connected connection has emitted one; the number of joinRoom emitted
\* changes only in a connect step.  A connect_error emits nothing, opens no
\* connection and changes no state of the component (LifecycleSpec).
C18_JoinOnConnect ==
    /\ [](/\ \A e \in Emitted("joinRoom") :
                /\ CopiesIn(e, emitted) = 1
                /\ e.conn \in 1..Len(conns)
                /\ conns[e.conn].state # "connecting"
                /\ e.room = conns[e.conn].room
                /\ e.msg.senderName = DisplayName
          /\ \A c \in 1..Len(conns) :
                conns[c].state = "connected"
                   => Cardinality({e \in Emitted("joinRoom") : e.conn = c}) = 1)
    /\ [][/\ \A c \in 1..Len(conns) :
               Connect(c)
                  => /\ c = cleanup /\ c = socket
                     /\ conns[c].room = roomId
                     /\ emitted' = emitted (+) SetToBag({JoinRoom(c)})
          /\ emitted' # emitted => \E c \in 1..Len(conns) : Connect(c)
          /\ \A c \in 1..Len(conns) :
               ConnectError(c)
                  => /\ emitted' = emitted
                     /\ conns' = conns
                     /\ <<phase, token, roomId, socket, cleanup, fetches, messages,
                          input, file, roomTitle, menuItems, onlineUsers, notice,
                          nav, uploads, uploadCount, nextId, presence>>' =
                        <<phase, token, roomId, socket, cleanup, fetches, messages,
                          input, file, roomTitle, menuItems, onlineUsers, notice,
                          nav, uploads, uploadCount, nextId, presence>>]_vars

\* C18 witness: after a room change, the second connection had a
\* connect_error and then connected; each connection has emitted its one
\* joinRoom, with its own room
C18_Witness ==
    /\ Mounted
    /\ Len(conns) = 2
    /\ conns[2].state = "connected"
    /\ lastEvent = [ev |-> "connect_error", arg |-> <<2>>]
    /\ BagCardinality(emitted) = 2
    /\ {<<e.conn, e.room>> : e \in Emitted("joinRoom")} = {<<1, 1>>, <<2, 2>>}
    /\ roomId = 2

\* C19 as claimed: in the second variant, a newMessage or newProof whose id
\* is already in the message list adds no entry with that id (Variant2Spec).
C19_InboundDeduplicated ==
    [][\A c \in 1..Len(conns) : \A m \in ServerHolds(conns[c].room) :
         ((NewMessage(c, m) \/ NewProof(c, m)) /\ HasId(messages, m.id))
            => Occurrences(messages', m.id) = Occurrences(messages, m.id)]_vars

\* C19: the user's own text, listed by the send, is listed a second time by
\* the server's echo
C19_Witness ==
    /\ nextId = 1
    /\ lastEvent = [ev |-> "newMessage", arg |-> <<LocalId(1)>>]
    /\ Len(messages) = 2
    /\ messages[1].id = LocalId(1) /\ messages[2].id = LocalId(1)
    /\ messages[1].senderName = DisplayName

\* C20 as claimed: a userList event sets the online participants to the
\* trimmed names of the received list, each once, without the blank ones and
\* without the local display name (PresenceSpec).
C20_UserListTrimmed ==
    [][(\E c \in 1..Len(conns) : UserList(c))
        => /\ Range(onlineUsers') =
                 {Trim(u) : u \in Range(presence)} \ {<<>>, Trim(DisplayName)}
           /\ \A i, j \in 1..Len(onlineUsers') :
                 Trim(onlineUsers'[i]) = Trim(onlineUsers'[j]) => i = j]_vars

\* C20: a list naming "b", " b" and "Y " was applied: all three are listed
C20_Witness ==
    /\ presence = <<Bob, <<SP, "b">>, <<"Y", SP>>>>
    /\ onlineUsers = presence
    /\ Trim(onlineUsers[1]) = Trim(onlineUsers[2])
    /\ Trim(onlineUsers[3]) = DisplayName

\* C21 as claimed: while the view is mounted, the response of a fetch that
\* is not of the latest run of the loader effect changes neither the title,
\* the menu nor the message list, and a title that is set after the latest
\* run's room fetch succeeded is that of the current room (LoaderSpec).
C21_StaleFetchIgnored ==
    /\ []((Mounted /\ fetches # <<>> /\ fetches[Len(fetches)].roomSt = "ok")
             => roomTitle = roomId)
    /\ [][\A k \in 1..(Len(fetches) - 1) :
            (\/ \E menu \in SessionMenus : FetchRoomOk(k, menu)
             \/ \E hist \in Histories(fetches[k].room) : FetchMessagesOk(k, hist))
               => /\ roomTitle' = roomTitle
                  /\ menuItems' = menuItems
                  /\ messages' = messages]_vars

\* C21: in room 2, whose own fetches have both succeeded, the title and the
\* message list shown are those of room 1, set by its late responses
C21_Witness ==
    /\ Mounted
    /\ roomId = 2
    /\ Len(fetches) = 2
    /\ fetches[2].roomSt = "ok" /\ fetches[2].msgSt = "ok"
    /\ fetches[1].roomSt = "ok" /\ fetches[1].msgSt = "ok"
    /\ roomTitle = 1
    /\ messages # <<>>
    /\ \A i \in 1..Len(messages) : RoomOf(messages[i].id) = 1

====
